---- MODULE Spec2Model ----
(***************************************************************************)
(* Decision Assistant: the input schema (app/schema.py), the scoring and   *)
(* decision engine (app/decision_engine.py) and the form handler           *)
(* (app/streamlit_app.py).                                                 *)
(*                                                                         *)
(* Numbers.  The engine computes in binary floating point.  Here every     *)
(* quantity is an exact rational kept as an integer count of a fixed unit: *)
(*   - a normalized signal (0..1) is a count of 1/Unit, Unit = 3900 being  *)
(*     the least common multiple of the divisors 4, 15, 50 and 52;         *)
(*   - the cost signal is a count of 1/(Unit*CostUnit), because            *)
(*     cost/5_000_000 is a multiple of 1/(Unit*CostUnit) for every integer *)
(*     cost but not of 1/Unit;                                             *)
(*   - a weight is a count of hundredths;                                  *)
(*   - raw is a pair <<hi, lo>> standing for                               *)
(*     (hi*CostUnit + lo) / (100*Unit*CostUnit), with 0 <= lo < CostUnit,  *)
(*     so that no intermediate value leaves the 32-bit range.              *)
(* round(100/(1+exp(-6*raw))) is the number of k in 1..100 with            *)
(* raw >= ln((k-0.5)/(100.5-k))/6; SigmoidThreshold lists those hundred    *)
(* numbers in raw's unit, rounded up (they are irrational, raw is not).    *)
(* Every threshold is more than 1e-13 away from the nearest value raw can  *)
(* take, far more than the rounding error of the float computation.        *)
(***************************************************************************)
EXTENDS Integers, Sequences, FiniteSets, TLC

VARIABLES
  p,          \* the caller's ProjectInput record, or None
  evaluated,  \* the record the last run_decision call received, or None
  out,        \* the DecisionOutput of the last run_decision call, or None
  decided,    \* arguments and result of the last direct decide call, or None
  calls,      \* number of run_decision calls made so far
  submitted,  \* the raw field values last handed to the ProjectInput constructor
  constructed,\* outcome of the last constructor call: "none", "ok", "ValidationError"
  page,       \* what the form page shows after the last script run: the widgets'
              \* values and, below them, a result, an input error or nothing
  held        \* an earlier output the caller kept, or None: the record it was
              \* computed from (input), the output as it was returned (returned)
              \* and as the caller has it now (output), and whether run_decision
              \* has been called on another record since (others)

vars == <<p, evaluated, out, decided, calls, submitted, constructed, page, held>>

None == [none |-> TRUE]

----------------------------------------------------------------------------
(* app/schema.py *)

DecisionType == {"GO", "NO-GO", "NEEDS REVIEW"}

\* The fields of ProjectInput.  A text field is represented by its length,
\* the only thing the schema constrains and the engine never reads.
Fields ==
  {"project_name", "objective", "team_size", "duration_weeks",
   "estimated_cost_usd", "customer_impact", "strategic_alignment",
   "technical_complexity", "delivery_risk", "compliance_risk",
   "dependencies_count", "notes"}

\* Field(..., ge=lo, le=hi) and Field(..., min_length=lo, max_length=hi)
FieldMin ==
  [project_name |-> 3, objective |-> 10, team_size |-> 1, duration_weeks |-> 1,
   estimated_cost_usd |-> 0, customer_impact |-> 1, strategic_alignment |-> 1,
   technical_complexity |-> 1, delivery_risk |-> 1, compliance_risk |-> 1,
   dependencies_count |-> 0, notes |-> 0]

FieldMax ==
  [project_name |-> 80, objective |-> 400, team_size |-> 200, duration_weeks |-> 104,
   estimated_cost_usd |-> 100000000, customer_impact |-> 5, strategic_alignment |-> 5,
   technical_complexity |-> 5, delivery_risk |-> 5, compliance_risk |-> 5,
   dependencies_count |-> 50, notes |-> 600]

\* the constraints with the upper limits (le, max_length) left out
Violations_no_upper(raw) == {f \in Fields : raw[f] < FieldMin[f]}

\* The constraints a set of raw field values violates (pydantic collects all).
Violations(raw) ==
  {f \in Fields : raw[f] < FieldMin[f] \/ raw[f] > FieldMax[f]}

\* ProjectInput(**raw): the record, or a ValidationError.
ProjectInput(raw) ==
  IF Violations(raw) = {}
    THEN [ok |-> TRUE, value |-> raw]
    ELSE [ok |-> FALSE, errors |-> Violations(raw)]

----------------------------------------------------------------------------
(* app/decision_engine.py: weights and normalization *)

Unit == 3900
CostUnit == 50000

\* Weights(), in hundredths
DEFAULT_WEIGHTS ==
  [customer_impact |-> 22, strategic_alignment |-> 22, exec_sponsor |-> 10,
   technical_complexity |-> 14, delivery_risk |-> 16, compliance_risk |-> 10,
   dependencies |-> 6, team_size |-> 3, duration |-> 4, cost |-> 3]

\* the scale turned over: (5 - x) / 4.0
scale_5_to_1(x) == (5 - x) * (Unit \div 4)

\* (x - 1) / 4.0, in 1/Unit
scale_1_to_5(x) == (x - 1) * (Unit \div 4)

\* np.clip(num/den, 0.0, 1.0) as a count of 1/(den*k): num*k clipped to 0..den*k
clip_0_1(num, den, k) ==
  IF num <= 0 THEN 0 ELSE IF num >= den THEN den * k ELSE num * k

\* clip(cost_usd / 5_000_000), in 1/(Unit*CostUnit): 5_000_000 * 39 = Unit*CostUnit
normalize_cost(cost_usd) == clip_0_1(cost_usd, 5000000, 39)

\* clip(weeks / 52), in 1/Unit
normalize_duration(weeks) == clip_0_1(weeks, 52, Unit \div 52)

\* the team size divided by 100 and not by 50
normalize_team_100(team_size) == clip_0_1(team_size, 100, Unit \div 100)

\* clip(team_size / 50), in 1/Unit
normalize_team(team_size) == clip_0_1(team_size, 50, Unit \div 50)

\* clip(n / 15), in 1/Unit
normalize_dependencies(n) == clip_0_1(n, 15, Unit \div 15)

----------------------------------------------------------------------------
(* app/decision_engine.py: score_project *)

\* raw >= t for two normalized pairs <<hi, lo>>
RawGE(raw, t) == raw[1] > t[1] \/ (raw[1] = t[1] /\ raw[2] >= t[2])

\* pos - neg of score_project, as the pair <<hi, lo>>
raw_score(q, w) ==
  LET ci == scale_1_to_5(q.customer_impact)
      sa == scale_1_to_5(q.strategic_alignment)
      tc == scale_1_to_5(q.technical_complexity)
      dr == scale_1_to_5(q.delivery_risk)
      cr == scale_1_to_5(q.compliance_risk)
      dep == normalize_dependencies(q.dependencies_count)
      team == normalize_team(q.team_size)
      dur == normalize_duration(q.duration_weeks)
      cost == normalize_cost(q.estimated_cost_usd)
      sponsor == IF q.has_exec_sponsor THEN Unit ELSE 0
      pos == w.customer_impact * ci + w.strategic_alignment * sa
               + w.exec_sponsor * sponsor
      neg == w.technical_complexity * tc + w.delivery_risk * dr
               + w.compliance_risk * cr + w.dependencies * dep
               + w.team_size * team + w.duration * dur
      negcost == w.cost * cost
  IN  <<(pos - neg) + ((0 - negcost) \div CostUnit), (0 - negcost) % CostUnit>>

\* ln((k - 0.5)/(100.5 - k))/6 for k = 1..100, as pairs <<hi, lo>>, rounded up
SigmoidThreshold ==
  <<
     <<-344065, 9320>>, <<-271999, 27820>>, <<-238132, 24651>>, <<-215591, 14871>>, <<-198579, 41236>>,
     <<-184851, 31838>>, <<-173301, 32407>>, <<-163300, 6723>>, <<-154458, 13372>>, <<-146514, 11331>>,
     <<-139287, 44054>>, <<-132643, 19571>>, <<-126485, 42016>>, <<-120735, 22133>>, <<-115334, 4889>>,
     <<-110235, 37592>>, <<-105397, 19685>>, <<-100789, 8410>>, <<-96385, 45064>>, <<-92160, 11164>>,
     <<-88097, 20560>>, <<-84178, 1509>>, <<-80390, 21462>>, <<-76719, 6462>>, <<-73155, 6500>>,
     <<-69688, 7813>>, <<-66310, 42813>>, <<-63012, 48190>>, <<-59787, 21573>>, <<-56630, 27049>>,
     <<-53535, 49776>>, <<-50496, 49852>>, <<-47508, 15598>>, <<-44568, 16347>>, <<-41671, 4840>>,
     <<-38814, 19287>>, <<-35993, 35153>>, <<-33204, 16723>>, <<-30445, 18467>>, <<-27713, 36248>>,
     <<-25004, 8401>>, <<-22317, 16688>>, <<-19649, 37167>>, <<-16997, 40975>>, <<-14359, 45048>>,
     <<-11732, 12779>>, <<-9115, 4641>>, <<-6506, 28760>>, <<-3902, 41469>>, <<-1301, 47834>>,
     <<1300, 2167>>, <<3901, 8532>>, <<6505, 21241>>, <<9114, 45360>>, <<11731, 37222>>,
     <<14358, 4953>>, <<16996, 9026>>, <<19648, 12834>>, <<22316, 33313>>, <<25003, 41600>>,
     <<27712, 13753>>, <<30444, 31534>>, <<33203, 33278>>, <<35992, 14848>>, <<38813, 30714>>,
     <<41670, 45161>>, <<44567, 33654>>, <<47507, 34403>>, <<50495, 149>>, <<53534, 225>>,
     <<56629, 22952>>, <<59786, 28428>>, <<63011, 1811>>, <<66309, 7188>>, <<69687, 42188>>,
     <<73154, 43501>>, <<76718, 43539>>, <<80389, 28539>>, <<84177, 48492>>, <<88096, 29441>>,
     <<92159, 38837>>, <<96384, 4937>>, <<100788, 41591>>, <<105396, 30316>>, <<110234, 12409>>,
     <<115333, 45112>>, <<120734, 27868>>, <<126484, 7985>>, <<132642, 30430>>, <<139286, 5947>>,
     <<146513, 38670>>, <<154457, 36629>>, <<163299, 43278>>, <<173300, 17594>>, <<184850, 18163>>,
     <<198578, 8765>>, <<215590, 35130>>, <<238131, 25350>>, <<271998, 22181>>, <<344064, 40681>>
  >>

\* the largest k in lo..hi with raw >= SigmoidThreshold[k] (lo when there is none)
RECURSIVE SigmoidSearch(_, _, _)
SigmoidSearch(raw, lo, hi) ==
  IF lo = hi THEN lo
  ELSE LET mid == (lo + hi + 1) \div 2
       IN  IF RawGE(raw, SigmoidThreshold[mid])
             THEN SigmoidSearch(raw, mid, hi)
             ELSE SigmoidSearch(raw, lo, mid - 1)

\* a linear map of raw to 0..100 with no squashing: 50 + 100*raw, rounded down
linear_score(raw) == 50 + (raw[1] \div Unit)

\* int(round(100 * (1 / (1 + np.exp(-6 * raw)))))
logistic_score(raw) == SigmoidSearch(raw, 0, 100)

MsgImpact == "High customer impact increases priority and expected ROI."
MsgAlignment == "Strong strategic alignment supports funding and stakeholder commitment."
MsgSponsor == "Executive sponsorship reduces coordination risk and accelerates decisions."
MsgDelivery == "High delivery risk suggests you need stronger plan, milestones, and contingency."
MsgComplexity == "High technical complexity suggests discovery, architecture review, and phased rollout."
MsgCompliance == "High compliance risk requires early security and legal review with clear controls."
MsgDependencies == "Many dependencies increase schedule risk. Consider de-risking or reducing scope."
MsgDuration == "Long duration increases risk. Consider an MVP milestone or phased delivery."
MsgBalanced == "Signals are balanced. Decision depends on risk controls and milestone clarity."

\* the message put first and not last
PrependIf(cond, seq, msg) == IF cond THEN <<msg>> \o seq ELSE seq

\* rationale.append(msg) if cond
AppendIf(cond, seq, msg) == IF cond THEN Append(seq, msg) ELSE seq

\* the explainability block with its triggers at "> 4" and not at ">= 4"
rationale_above_4(q) ==
  LET r1 == IF q.customer_impact > 4 THEN <<MsgImpact>> ELSE <<>>
      r2 == IF q.strategic_alignment > 4 THEN Append(r1, MsgAlignment) ELSE r1
      r3 == IF q.has_exec_sponsor THEN Append(r2, MsgSponsor) ELSE r2
      r4 == IF q.delivery_risk > 4 THEN Append(r3, MsgDelivery) ELSE r3
      r5 == IF q.technical_complexity > 4 THEN Append(r4, MsgComplexity) ELSE r4
      r6 == IF q.compliance_risk > 4 THEN Append(r5, MsgCompliance) ELSE r5
      r7 == IF q.dependencies_count >= 8 THEN Append(r6, MsgDependencies) ELSE r6
      r8 == IF q.duration_weeks >= 26 THEN Append(r7, MsgDuration) ELSE r7
  IN  IF r8 = <<>> THEN <<MsgBalanced>> ELSE r8

\* the explainability block of score_project
rationale_for(q) ==
  LET r1 == AppendIf(q.customer_impact >= 4, <<>>, MsgImpact)
      r2 == AppendIf(q.strategic_alignment >= 4, r1, MsgAlignment)
      r3 == AppendIf(q.has_exec_sponsor, r2, MsgSponsor)
      r4 == AppendIf(q.delivery_risk >= 4, r3, MsgDelivery)
      r5 == AppendIf(q.technical_complexity >= 4, r4, MsgComplexity)
      r6 == AppendIf(q.compliance_risk >= 4, r5, MsgCompliance)
      r7 == AppendIf(q.dependencies_count >= 8, r6, MsgDependencies)
      r8 == AppendIf(q.duration_weeks >= 26, r7, MsgDuration)
  IN  IF r8 = <<>> THEN <<MsgBalanced>> ELSE r8

\* score_project(p, w) -> (score, rationale)
score_project(q, w) == <<logistic_score(raw_score(q, w)), rationale_for(q)>>

----------------------------------------------------------------------------
(* app/decision_engine.py: decide, run_decision *)

Guardrails ==
  <<"Define success metrics and leading indicators before execution.",
    "Require a written risk register with owners and mitigation dates.",
    "Use stage gates for funding. Discovery, MVP, Scale.">>

GoSteps ==
  <<"Lock success metrics. North Star plus 3 supporting KPIs.",
    "Create a milestone plan. Discovery, MVP, rollout.",
    "Confirm resourcing and ownership across teams.">>
GoExtra == "Run a 2-week discovery sprint to validate approach and reduce risk."

ReviewSteps ==
  <<"Identify the top 3 risks and create a mitigation plan with owners.",
    "Reduce scope to an MVP. One user journey, one workflow.",
    "Confirm dependency commitments in writing.",
    "Add instrumentation and an A/B test plan if user-facing.">>
ReviewExtra == "Schedule security and compliance review within 7 days."

NoGoSteps ==
  <<"Write a one-page alternative plan. Smaller scope or different approach.",
    "Re-evaluate after risks are reduced or strategy changes.",
    "If still needed, run a discovery spike to validate feasibility and cost.">>
NoGoExtra ==
  "This looks valuable, but current risk is too high. De-risk with discovery and an MVP."

\* the step put last and not first
AppendLastIf(cond, steps, step) == IF cond THEN Append(steps, step) ELSE steps

\* next_steps.insert(0, step) if cond
InsertFirstIf(cond, steps, step) == IF cond THEN <<step>> \o steps ELSE steps

\* decide with the GO band starting above 70
decide_above_70(score, q) ==
  IF score > 70
    THEN <<"GO",
           IF q.delivery_risk >= 4 \/ q.technical_complexity >= 4
             THEN <<GoExtra>> \o GoSteps ELSE GoSteps,
           Guardrails>>
  ELSE IF 45 <= score /\ score <= 70
    THEN <<"NEEDS REVIEW",
           IF q.compliance_risk >= 4 THEN <<ReviewExtra>> \o ReviewSteps ELSE ReviewSteps,
           Guardrails>>
  ELSE <<"NO-GO",
         IF q.customer_impact >= 4 /\ q.strategic_alignment >= 4
           THEN <<NoGoExtra>> \o NoGoSteps ELSE NoGoSteps,
         Guardrails>>

\* decide with the guardrails kept in one module-level list that every output
\* shares: what a caller appended to the list of an output it kept is in the
\* list of every later output
decide_shared_guardrails(score, q) ==
  LET shared == IF held = None THEN Guardrails ELSE held.output.guardrails
  IN  IF score >= 70
        THEN <<"GO",
               IF q.delivery_risk >= 4 \/ q.technical_complexity >= 4
                 THEN <<GoExtra>> \o GoSteps ELSE GoSteps,
               shared>>
      ELSE IF 45 <= score /\ score < 70
        THEN <<"NEEDS REVIEW",
               IF q.compliance_risk >= 4 THEN <<ReviewExtra>> \o ReviewSteps
                                         ELSE ReviewSteps,
               shared>>
      ELSE <<"NO-GO",
             IF q.customer_impact >= 4 /\ q.strategic_alignment >= 4
               THEN <<NoGoExtra>> \o NoGoSteps ELSE NoGoSteps,
             shared>>

\* decide(score, p) -> (decision, next_steps, guardrails); the three lists are
\* built by the call itself, so each call returns lists of its own
decide(score, q) ==
  IF score >= 70
    THEN <<"GO",
           InsertFirstIf(q.delivery_risk >= 4 \/ q.technical_complexity >= 4,
                         GoSteps, GoExtra),
           Guardrails>>
  ELSE IF 45 <= score /\ score < 70
    THEN <<"NEEDS REVIEW",
           InsertFirstIf(q.compliance_risk >= 4, ReviewSteps, ReviewExtra),
           Guardrails>>
  ELSE <<"NO-GO",
         InsertFirstIf(q.customer_impact >= 4 /\ q.strategic_alignment >= 4,
                       NoGoSteps, NoGoExtra),
         Guardrails>>

\* run_decision(p) -> DecisionOutput
run_decision(q) ==
  LET sr == score_project(q, DEFAULT_WEIGHTS)
      d == decide(sr[1], q)
  IN  [decision |-> d[1], score |-> sr[1], rationale |-> sr[2],
       recommended_next_steps |-> d[2], guardrails |-> d[3]]

----------------------------------------------------------------------------
(* Input values *)

MaxCalls == 3

\* the values the form's widgets start with (streamlit_app.py, lines 32-51)
FormDefault ==
  [project_name |-> 30, objective |-> 74, team_size |-> 8, duration_weeks |-> 12,
   estimated_cost_usd |-> 150000, customer_impact |-> 4, strategic_alignment |-> 5,
   technical_complexity |-> 3, delivery_risk |-> 3, compliance_risk |-> 2,
   dependencies_count |-> 3, has_exec_sponsor |-> TRUE, notes |-> 0]

Ordinals == 1..5

\* valid records for the engine: every ordinal value, and for each size field
\* its least value, its greatest value and values around its trigger or its
\* saturation point
EngineInputs ==
  [project_name : {30}, objective : {74}, notes : {0},
   team_size : {1, 200}, duration_weeks : {1, 26, 104},
   estimated_cost_usd : {0, 100000000},
   customer_impact : Ordinals, strategic_alignment : Ordinals,
   technical_complexity : Ordinals, delivery_risk : Ordinals,
   compliance_risk : Ordinals,
   dependencies_count : {0, 8, 50}, has_exec_sponsor : BOOLEAN]

\* records for decide: it reads the five ordinal fields only
DecideInputs ==
  {[FormDefault EXCEPT !.customer_impact = ci, !.strategic_alignment = sa,
                       !.technical_complexity = tc, !.delivery_risk = dr,
                       !.compliance_risk = cr] :
     ci \in {1, 4, 5}, sa \in {3, 4}, tc \in {3, 4}, dr \in {1, 3, 4, 5}, cr \in {3, 4, 5}}

ScoreArgs == 0..100

\* what the form can submit: the number widgets and sliders keep their values
\* within min_value..max_value, the text widgets put no limit on the length
FormValues ==
  {[FormDefault EXCEPT !.project_name = n, !.objective = o, !.notes = t,
                       !.compliance_risk = cr] :
     n \in {2, 30, 81}, o \in {9, 74}, t \in {0, 601}, cr \in {2, 5}}

\* what a caller of the constructor can pass
DirectValues ==
  {[FormDefault EXCEPT !.team_size = ts, !.customer_impact = ci,
                       !.estimated_cost_usd = c] :
     ts \in {0, 8, 201}, ci \in {4, 6}, c \in {-1, 150000}}

CallerValues ==
  {[FormDefault EXCEPT !.team_size = ts, !.customer_impact = ci,
                       !.compliance_risk = cr] :
     ts \in {0, 8}, ci \in {4, 6}, cr \in {2, 5}}

\* the assignments a caller makes to a field of a record
Assignments ==
  {<<"team_size", 0>>, <<"team_size", 8>>,
   <<"customer_impact", 4>>, <<"customer_impact", 6>>,
   <<"compliance_risk", 2>>, <<"compliance_risk", 5>>}

\* what a caller appends to a list of an output it kept
CallerNote == "added by the caller"

----------------------------------------------------------------------------
(* State machine *)

\* the page before any click: the widgets alone, with their starting values
Idle == [kind |-> "idle", form |-> FormDefault]

InitRest ==
  /\ evaluated = None
  /\ out = None
  /\ decided = None
  /\ calls = 0
  /\ submitted = None
  /\ constructed = "none"
  /\ page = Idle
  /\ held = None

\* p = ProjectInput(**raw) by any caller
Construct(raw) ==
  LET r == ProjectInput(raw)
  IN  /\ submitted' = raw
      /\ constructed' = IF r.ok THEN "ok" ELSE "ValidationError"
      /\ p' = IF r.ok THEN r.value ELSE None
      /\ UNCHANGED <<evaluated, out, decided, calls, page, held>>

\* out = run_decision(p)
CallRunDecision ==
  /\ p # None
  /\ evaluated' = p
  /\ out' = run_decision(p)
  /\ calls' = calls + 1
  /\ held' = IF held # None /\ p # held.input
              THEN [held EXCEPT !.others = TRUE] ELSE held
  /\ UNCHANGED <<p, decided, submitted, constructed, page>>

RunOnce == evaluated = None /\ CallRunDecision

Evaluate == calls < MaxCalls /\ CallRunDecision

\* decide(score, p) called directly
Decide(score) ==
  /\ p # None
  /\ decided' = [score |-> score, input |-> p, result |-> decide(score, p)]
  /\ UNCHANGED <<p, evaluated, out, calls, submitted, constructed, page, held>>

\* p.field = value: ProjectInput is a BaseModel with the default configuration
\* (neither frozen nor validate_assignment), so the assignment is stored as is
AssignField(field, value) ==
  /\ p # None
  /\ p' = [p EXCEPT ![field] = value]
  /\ UNCHANGED <<evaluated, out, decided, calls, submitted, constructed, page, held>>

\* the "if run:" block of the page script, for the widget values f
Generate(f) ==
  LET r == ProjectInput(f)
  IN  /\ submitted' = f
      /\ IF r.ok
           THEN LET o == run_decision(r.value)
                IN  /\ calls < MaxCalls
                    /\ constructed' = "ok"
                    /\ p' = r.value
                    /\ evaluated' = r.value
                    /\ out' = o
                    /\ calls' = calls + 1
                    /\ page' = [kind |-> "result",
                                form |-> f,
                                decision |-> o.decision,
                                score |-> o.score,
                                rationale |-> o.rationale,
                                recommended_next_steps |-> o.recommended_next_steps,
                                guardrails |-> o.guardrails,
                                export |-> [project_name |-> r.value.project_name,
                                            objective |-> r.value.objective,
                                            decision |-> o.decision,
                                            score |-> o.score,
                                            rationale |-> o.rationale,
                                            recommended_next_steps |->
                                              o.recommended_next_steps,
                                            guardrails |-> o.guardrails]]
           ELSE /\ constructed' = "ValidationError"
                /\ p' = None
                /\ page' = [kind |-> "error", form |-> f, errors |-> r.errors]
                /\ UNCHANGED <<evaluated, out, calls>>
      /\ UNCHANGED <<decided, held>>

\* a run of the page script that a change of a widget started: run is False
Rerun(f) ==
  /\ page' = [kind |-> "idle", form |-> f]
  /\ UNCHANGED <<p, evaluated, out, decided, calls, submitted, constructed, held>>

\* the caller keeps the output it just received
KeepOutput ==
  /\ out # None
  /\ held' = [input |-> evaluated, returned |-> out, output |-> out,
              others |-> FALSE]
  /\ UNCHANGED <<p, evaluated, out, decided, calls, submitted, constructed, page>>

\* the caller appends to one of the lists of the output it kept
MutateHeld(list) ==
  /\ held # None
  /\ held.output = held.returned
  /\ held' = [held EXCEPT !.output[list] = Append(@, CallerNote)]
  /\ UNCHANGED <<p, evaluated, out, decided, calls, submitted, constructed, page>>

ListFields == {"rationale", "recommended_next_steps", "guardrails"}

\* the engine as a function: one input, one call
Init == p \in EngineInputs /\ InitRest
Next == RunOnce
Spec == Init /\ [][Next]_vars

\* decide as a function: one record, any score
InitDecide == p \in DecideInputs /\ InitRest
NextDecide == \E s \in ScoreArgs : Decide(s)
SpecDecide == InitDecide /\ [][NextDecide]_vars

\* the form page, and callers of the constructor and of the engine
InitForm == p = None /\ InitRest
NextForm ==
  \/ \E f \in FormValues : Generate(f)
  \/ \E f \in FormValues : Rerun(f)
  \/ \E raw \in DirectValues : Construct(raw)
  \/ Evaluate
SpecForm == InitForm /\ [][NextForm]_vars

\* a caller that keeps records and outputs and changes them
InitCaller == p = None /\ InitRest
NextCaller ==
  \/ \E raw \in CallerValues : Construct(raw)
  \/ Evaluate
  \/ \E a \in Assignments : AssignField(a[1], a[2])
  \/ KeepOutput
  \/ \E l \in ListFields : MutateHeld(l)
SpecCaller == InitCaller /\ [][NextCaller]_vars

----------------------------------------------------------------------------
(* Properties *)

Range(seq) == {seq[i] : i \in 1..Len(seq)}

InBounds(raw) == \A f \in Fields : FieldMin[f] <= raw[f] /\ raw[f] <= FieldMax[f]

ScoreOf(q) == score_project(q, DEFAULT_WEIGHTS)[1]

\* C1: threshold consistency.  Every output of run_decision on a valid record
\* has decision GO exactly when score >= 70, NEEDS REVIEW exactly when
\* 45 <= score < 70 and NO-GO exactly when score < 45.
C1_ThresholdConsistency ==
  (out # None /\ InBounds(evaluated)) =>
    /\ out.decision \in DecisionType
    /\ out.decision = "GO" <=> out.score >= 70
    /\ out.decision = "NEEDS REVIEW" <=> (45 <= out.score /\ out.score < 70)
    /\ out.decision = "NO-GO" <=> out.score < 45

\* an output whose score is exactly on the lower bound of the GO band
C1_Witness ==
  out # None /\ InBounds(evaluated) /\ out.score = 70 /\ out.decision = "GO"

\* C2: for every valid record, the extremes of the schema included, the score
\* is an integer between 0 and 100.
C2_ScoreInRange ==
  (out # None /\ InBounds(evaluated)) => out.score \in 0..100

\* the record with every size field at the greatest value the schema allows
C2_Witness ==
  /\ out # None
  /\ evaluated.team_size = 200
  /\ evaluated.duration_weeks = 104
  /\ evaluated.estimated_cost_usd = 100000000
  /\ evaluated.dependencies_count = 50
  /\ out.score \in 0..100

PositiveFields == {"customer_impact", "strategic_alignment"}
NegativeFields ==
  {"technical_complexity", "delivery_risk", "compliance_risk",
   "dependencies_count", "team_size", "duration_weeks", "estimated_cost_usd"}

OrdinalFields ==
  {"customer_impact", "strategic_alignment", "technical_complexity",
   "delivery_risk", "compliance_risk"}

\* the values a size field is raised to: next to its least value, at and next
\* to the point where its signal saturates, and its greatest value
RaisedSizes ==
  [dependencies_count |-> {1, 15, 16, 50},
   team_size |-> {2, 50, 51, 200},
   duration_weeks |-> {2, 52, 53, 104},
   estimated_cost_usd |-> {1, 5000000, 5000001, 100000000}]

\* the greater values field f of record q is raised to; an ordinal field is
\* raised by one step, every record with the next value being checked in turn
RaisedValues(q, f) ==
  IF f \in OrdinalFields
    THEN {q[f] + 1} \cap Ordinals
    ELSE {v \in RaisedSizes[f] : v > q[f]}

\* C4: monotonicity.  With one field of a valid record raised and the others
\* kept, the score is not smaller when the field is customer_impact or
\* strategic_alignment, and not greater when it is one of the seven risk and
\* size fields.
C4_Monotone ==
  (out # None /\ InBounds(evaluated)) =>
    /\ \A f \in PositiveFields : \A v \in RaisedValues(evaluated, f) :
         ScoreOf([evaluated EXCEPT ![f] = v]) >= out.score
    /\ \A f \in NegativeFields : \A v \in RaisedValues(evaluated, f) :
         ScoreOf([evaluated EXCEPT ![f] = v]) <= out.score

\* a record whose score rises with customer_impact, falls with delivery_risk
\* and with team_size, and stays when the cost is raised past its saturation
C4_Witness ==
  /\ out # None
  /\ evaluated.customer_impact = 3
  /\ evaluated.delivery_risk = 3
  /\ evaluated.team_size = 1
  /\ evaluated.estimated_cost_usd = 100000000
  /\ ScoreOf([evaluated EXCEPT !.customer_impact = 4]) > out.score
  /\ ScoreOf([evaluated EXCEPT !.delivery_risk = 4]) < out.score
  /\ ScoreOf([evaluated EXCEPT !.team_size = 50]) < out.score

BoundaryAllOnes ==
  [project_name |-> 30, objective |-> 74, notes |-> 0,
   team_size |-> 1, duration_weeks |-> 1, estimated_cost_usd |-> 0,
   customer_impact |-> 1, strategic_alignment |-> 1, technical_complexity |-> 1,
   delivery_risk |-> 1, compliance_risk |-> 1,
   dependencies_count |-> 0, has_exec_sponsor |-> FALSE]

\* the valid record with no positive signal and every negative signal at 1.0
MostNegative ==
  [project_name |-> 30, objective |-> 74, notes |-> 0,
   team_size |-> 200, duration_weeks |-> 104, estimated_cost_usd |-> 100000000,
   customer_impact |-> 1, strategic_alignment |-> 1, technical_complexity |-> 5,
   delivery_risk |-> 5, compliance_risk |-> 5,
   dependencies_count |-> 50, has_exec_sponsor |-> FALSE]

RawOf(q) == raw_score(q, DEFAULT_WEIGHTS)

\* C5 as stated: for the record with every ordinal field 1, no sponsor, no
\* dependencies, team 1, one week and cost 0, raw is the least raw of all valid
\* records, the score is near 0 (at most 10), the decision is NO-GO and the
\* rationale is the fallback message alone.
C5_AsStated ==
  (out # None /\ evaluated = BoundaryAllOnes) =>
    /\ \A q \in EngineInputs : RawGE(RawOf(q), RawOf(evaluated))
    /\ out.score <= 10
    /\ out.decision = "NO-GO"
    /\ out.rationale = <<MsgBalanced>>

\* C5 amended: for that record raw is -(0.03*1/50 + 0.04*1/52), about -0.0014,
\* which is not the least raw (the record MostNegative has raw = -0.56); the
\* score is 50, the decision is NEEDS REVIEW and the rationale is the fallback
\* message alone.
C5_Amended ==
  (out # None /\ evaluated = BoundaryAllOnes) =>
    /\ RawOf(evaluated) = <<0 - (3 * 78 + 4 * 75), 0>>
    /\ RawOf(MostNegative) = <<0 - 56 * Unit, 0>>
    /\ ~RawGE(RawOf(MostNegative), RawOf(evaluated))
    /\ out.score = 50
    /\ out.decision = "NEEDS REVIEW"
    /\ out.rationale = <<MsgBalanced>>

C5_Witness == out # None /\ evaluated = BoundaryAllOnes /\ out.score = 50

ScenarioAllFives ==
  [project_name |-> 30, objective |-> 74, notes |-> 0,
   team_size |-> 1, duration_weeks |-> 1, estimated_cost_usd |-> 0,
   customer_impact |-> 5, strategic_alignment |-> 5, technical_complexity |-> 5,
   delivery_risk |-> 5, compliance_risk |-> 5,
   dependencies_count |-> 0, has_exec_sponsor |-> TRUE]

\* C6: for the record with every ordinal field 5, a sponsor, no dependencies,
\* team 1, one week and cost 0, run_decision returns score 70 and GO, and the
\* rationale is the impact, alignment, sponsorship, delivery-risk, complexity
\* and compliance messages, in this order.
C6_Scenario ==
  (out # None /\ evaluated = ScenarioAllFives) =>
    /\ out.score = 70
    /\ out.decision = "GO"
    /\ out.rationale =
         <<MsgImpact, MsgAlignment, MsgSponsor, MsgDelivery, MsgComplexity,
           MsgCompliance>>

C6_Witness ==
  out # None /\ evaluated = ScenarioAllFives /\ Len(out.rationale) = 6

TriggerMessages ==
  <<MsgImpact, MsgAlignment, MsgSponsor, MsgDelivery, MsgComplexity,
    MsgCompliance, MsgDependencies, MsgDuration>>

\* the triggers that hold on the fields of q, by their place in the list
Fired(q) ==
  {i \in 1..8 :
     \/ i = 1 /\ q.customer_impact >= 4
     \/ i = 2 /\ q.strategic_alignment >= 4
     \/ i = 3 /\ q.has_exec_sponsor
     \/ i = 4 /\ q.delivery_risk >= 4
     \/ i = 5 /\ q.technical_complexity >= 4
     \/ i = 6 /\ q.compliance_risk >= 4
     \/ i = 7 /\ q.dependencies_count >= 8
     \/ i = 8 /\ q.duration_weeks >= 26}

\* the n-th least member of a set of numbers
Nth(S, n) == CHOOSE j \in S : Cardinality({x \in S : x < j}) = n - 1

\* weights other than the default ones
OtherWeights ==
  {[customer_impact |-> 0, strategic_alignment |-> 0, exec_sponsor |-> 0,
    technical_complexity |-> 0, delivery_risk |-> 0, compliance_risk |-> 0,
    dependencies |-> 0, team_size |-> 0, duration |-> 0, cost |-> 0],
   [customer_impact |-> 10, strategic_alignment |-> 10, exec_sponsor |-> 50,
    technical_complexity |-> 30, delivery_risk |-> 5, compliance_risk |-> 5,
    dependencies |-> 20, team_size |-> 10, duration |-> 10, cost |-> 10]}

\* C9: the rationale of a valid record is the messages of the triggers that
\* hold, in the order of the list; the fallback message is there exactly when
\* no trigger holds and is then the only entry; the rationale is never empty
\* and is the same under other weights.
C9_Rationale ==
  (out # None /\ InBounds(evaluated)) =>
    LET r == out.rationale
        fired == Fired(evaluated)
    IN  /\ Len(r) >= 1
        /\ (MsgBalanced \in Range(r)) <=> (fired = {})
        /\ fired = {} => r = <<MsgBalanced>>
        /\ fired # {} =>
             /\ Len(r) = Cardinality(fired)
             /\ \A i \in 1..Len(r) : r[i] = TriggerMessages[Nth(fired, i)]
        /\ \A w \in OtherWeights : score_project(evaluated, w)[2] = r

\* a rationale that leaves triggers out between the ones it lists: the first,
\* the fifth and the eighth, with customer_impact exactly 4
C9_Witness ==
  /\ out # None
  /\ evaluated.customer_impact = 4
  /\ Fired(evaluated) = {1, 5, 8}
  /\ out.rationale = <<MsgImpact, MsgComplexity, MsgDuration>>

\* the decision band of a score
Band(score) ==
  IF score >= 70 THEN "GO" ELSE IF score >= 45 THEN "NEEDS REVIEW" ELSE "NO-GO"

BandSteps == [b \in DecisionType |->
  CASE b = "GO" -> GoSteps [] b = "NEEDS REVIEW" -> ReviewSteps [] OTHER -> NoGoSteps]

BandExtra == [b \in DecisionType |->
  CASE b = "GO" -> GoExtra [] b = "NEEDS REVIEW" -> ReviewExtra [] OTHER -> NoGoExtra]

BandCondition(b, q) ==
  CASE b = "GO" -> q.delivery_risk >= 4 \/ q.technical_complexity >= 4
    [] b = "NEEDS REVIEW" -> q.compliance_risk >= 4
    [] OTHER -> q.customer_impact >= 4 /\ q.strategic_alignment >= 4

\* every step of band b, the extra one included
StepsOfBand(b) == Range(BandSteps[b]) \cup {BandExtra[b]}

\* C10: for every score and record, decide returns the fixed list of the
\* score's band, with the band's extra step before it exactly when the band's
\* condition holds, and with no step of another band.
C10_NextSteps ==
  decided # None =>
    LET b == Band(decided.score)
        steps == decided.result[2]
    IN  /\ decided.result[1] = b
        /\ BandCondition(b, decided.input) =>
             /\ Len(steps) = Len(BandSteps[b]) + 1
             /\ steps[1] = BandExtra[b]
             /\ \A i \in 1..Len(BandSteps[b]) : steps[i + 1] = BandSteps[b][i]
        /\ ~BandCondition(b, decided.input) => steps = BandSteps[b]
        /\ \A o \in DecisionType \ {b} : Range(steps) \cap StepsOfBand(o) = {}

\* decide at the lower bound of the review band, with the review band's
\* condition, and the conditions of the two other bands, holding
C10_Witness ==
  /\ decided # None
  /\ decided.score = 45
  /\ decided.input.compliance_risk >= 4
  /\ decided.input.delivery_risk >= 4
  /\ decided.input.customer_impact >= 4 /\ decided.input.strategic_alignment >= 4
  /\ decided.result[2] = <<ReviewExtra>> \o ReviewSteps

ResultFields ==
  {"decision", "score", "rationale", "recommended_next_steps", "guardrails",
   "export"}

C3_State ==
  /\ constructed = "ValidationError" <=> (submitted # None /\ ~InBounds(submitted))
  /\ constructed = "ok" <=> (submitted # None /\ InBounds(submitted))
  /\ constructed = "ValidationError" => p = None
  /\ evaluated # None => InBounds(evaluated)
  /\ page.kind # "idle" => (page.kind = "error" <=> ~InBounds(page.form))
  /\ page.kind = "error" => DOMAIN page \cap ResultFields = {}
  /\ page.kind = "result" =>
       /\ InBounds(page.form)
       /\ ResultFields \subseteq DOMAIN page
       /\ page.score = ScoreOf(page.form)

C3_Step ==
  (\/ page'.kind = "error" /\ page' # page
   \/ constructed' = "ValidationError" /\ submitted' # submitted)
    => (calls' = calls /\ evaluated' = evaluated /\ out' = out)

\* C3: the validation gate.  Constructing a ProjectInput from values of which
\* one is out of its bounds fails with a validation error and yields no
\* record; run_decision only ever receives records within the bounds; a click
\* on the form with such values calls run_decision not at all and shows an
\* input error with no decision, score, rationale, next steps, guardrails or
\* export; a click with values within the bounds shows the result.
C3_ValidationGate == []C3_State /\ [][C3_Step]_vars

\* the constructor has just refused team_size = 0 while the page shows an
\* input error for a form that was refused, after run_decision has run
C3_Witness ==
  /\ constructed = "ValidationError"
  /\ submitted.team_size = 0
  /\ page.kind = "error"
  /\ page.form.project_name = 81
  /\ calls > 0

C8_Immutable ==
  /\ p # None => InBounds(p)
  /\ evaluated # None => InBounds(evaluated)

====
